---- MODULE Spec2Model ----
(***************************************************************************)
(* Product Management API (src/src/main/python/app.py).                    *)
(*                                                                         *)
(* The service is a set of FastAPI handlers over one table, products,      *)
(* reached through one SQLAlchemy session per request.  The model keeps    *)
(* the committed table, the id sequence of the table, the reachability of  *)
(* the database, and for every client the request it has in flight: the    *)
(* validated request, the position of its handler between two database     *)
(* statements and what the handler's session has loaded.  resp is the      *)
(* response the last step sent, if it sent one.  One step of a handler is  *)
(* one database statement together with the Python code that follows it    *)
(* up to the next statement.  sess[c] tells whether the session the last   *)
(* handler of c opened is still open.                                      *)
(*                                                                         *)
(* Spec runs one request at a time over every class of input and lets the  *)
(* database become unreachable between any two statements.  SpecConc runs  *)
(* the writing handlers and the read by name of two clients interleaved    *)
(* statement by statement, over the inputs whose interleavings differ.     *)
(*                                                                         *)
(* Strings are sequences of characters.  An Optional value is <<>> (None,  *)
(* field absent) or <<v>>.  A Decimal is [neg, whole, milli]: sign, whole  *)
(* part and thousandths; a NUMERIC(10,2) column value is [neg, whole,      *)
(* cents].                                                                 *)
(***************************************************************************)
EXTENDS Integers, Sequences, FiniteSets, TLC

VARIABLES table, seq, dbUp, pc, req, loc, resp, sess

vars == <<table, seq, dbUp, pc, req, loc, resp, sess>>

(***************************************************************************)
(* Bounds and constants                                                    *)
(***************************************************************************)
\* number of ids the sequence of products.id hands out in one behaviour
MaxId == 2

\* limits the spec and the tests state for name and description
MaxNameLen == 120
MaxDescLen == 255

\* price = Column(Numeric(10, 2))
NumericPrecision == 10
NumericScale == 2

Clients == {"c1", "c2"}

(***************************************************************************)
(* Values                                                                  *)
(***************************************************************************)
None == <<>>
Some(v) == <<v>>
IsNone(o) == o = <<>>
Val(o) == o[1]

Repeat(ch, n) == [i \in 1..n |-> ch]

NameA == <<"a">>
NameB == <<"b">>
NamePadded == <<" ", "a", " ">>
NameBlank == <<" ">>
NameEmpty == <<>>
NameLong == Repeat("n", MaxNameLen + 1)

DescD == <<"d">>
DescLong == Repeat("x", MaxDescLen + 1)

Dec(n, w, m) == [num |-> TRUE, neg |-> n, whole |-> w, milli |-> m]
NotANumber == [num |-> FALSE, neg |-> FALSE, whole |-> 0, milli |-> 0]

RECURSIVE Pow10(_)
Pow10(n) == IF n = 0 THEN 1 ELSE 10 * Pow10(n - 1)

PriceZero == Dec(FALSE, 0, 0)
PriceCents == Dec(FALSE, 10, 500)
PriceMilli == Dec(FALSE, 10, 506)
PriceHuge == Dec(FALSE, Pow10(NumericPrecision - NumericScale), 0)
PriceNegative == Dec(TRUE, 0, 10)

(***************************************************************************)
(* str.strip()                                                             *)
(***************************************************************************)
IsSpace(ch) == ch = " "

RECURSIVE LStrip(_)
LStrip(s) == IF s # <<>> /\ IsSpace(Head(s)) THEN LStrip(Tail(s)) ELSE s

RECURSIVE RStrip(_)
RStrip(s) ==
    IF s # <<>> /\ IsSpace(s[Len(s)]) THEN RStrip(SubSeq(s, 1, Len(s) - 1)) ELSE s

Strip(s) == RStrip(LStrip(s))

(***************************************************************************)
(* Decimal, float and NUMERIC(10,2)                                        *)
(***************************************************************************)
\* v < 0 on a Decimal
IsNegative(d) == d.neg /\ (d.whole > 0 \/ d.milli > 0)

\* a column that cuts the digits after the second place off
ToNumericTruncate(d) == [neg |-> d.neg, whole |-> d.whole, cents |-> d.milli \div 10]

\* the value a NUMERIC(10,2) column keeps of float(d): rounded to two
\* places, half away from zero
ToNumeric(d) ==
    LET c == (d.milli + 5) \div 10
    IN  IF c = 100
        THEN [neg |-> d.neg, whole |-> d.whole + 1, cents |-> 0]
        ELSE [neg |-> d.neg, whole |-> d.whole, cents |-> c]

\* the rounded value needs more than precision - scale digits before the point
Overflows(d) == ToNumeric(d).whole >= Pow10(NumericPrecision - NumericScale)

\* float(product.price) of a column value, as the Decimal it prints as
ToFloat(n) == [num |-> TRUE, neg |-> n.neg, whole |-> n.whole, milli |-> n.cents * 10]

(***************************************************************************)
(* Request schemas (pydantic)                                              *)
(***************************************************************************)
\* ProductCreate.validate_name: the error case, and the value it returns
ValidateName(v) == [ok |-> ~(v = <<>> \/ Strip(v) = <<>>), value |-> Strip(v)]

\* a validator without the check v < 0
ValidatePriceCreateAny(v) == TRUE

\* ProductCreate.validate_price: the value is accepted
ValidatePriceCreate(v) == ~IsNegative(v)

\* a ProductUpdate without its price validator
ValidatePriceUpdateAny(v) == TRUE

\* ProductUpdate.validate_price: the value is accepted
ValidatePriceUpdate(v) == ~IsNegative(v)

\* ProductCreate(**body): name: str, description: Optional[str] = None,
\* price: Decimal.  ok is FALSE when pydantic raises a ValidationError.
ProductCreate(body) ==
    LET nameOk == ~IsNone(body.name) /\ ValidateName(Val(body.name)).ok
        priceOk == /\ ~IsNone(body.price)
                   /\ Val(body.price).num
                   /\ ValidatePriceCreate(Val(body.price))
    IN  [ok |-> nameOk /\ priceOk,
         name |-> IF nameOk THEN ValidateName(Val(body.name)).value ELSE <<>>,
         price |-> body.price,
         description |-> body.description]

\* ProductUpdate(**body): description: Optional[str] = None,
\* price: Optional[Decimal] = None
ProductUpdate(body) ==
    LET priceOk == \/ IsNone(body.price)
                   \/ Val(body.price).num /\ ValidatePriceUpdate(Val(body.price))
    IN  [ok |-> priceOk, price |-> body.price, description |-> body.description]

(***************************************************************************)
(* The products table                                                      *)
(***************************************************************************)
\* a row of class Product
Product(i, n, d, p) == [name |-> n, price |-> p, description |-> d, id |-> i]

\* db.query(Product).filter(Product.name == n).first()
QueryByName(t, n) ==
    LET hits == {r \in t : r.name = n}
    IN  IF hits = {} THEN None ELSE Some(CHOOSE r \in hits : TRUE)

\* db.query(Product).filter(Product.id == i).first()
QueryById(t, i) ==
    LET hits == {r \in t : r.id = i}
    IN  IF hits = {} THEN None ELSE Some(CHOOSE r \in hits : TRUE)

\* name = Column(String, unique=True): the unique index refuses the row
UniqueViolation(t, n) == \E r \in t : r.name = n

\* the JSON object the read handlers build from a row
ProductJson(r) ==
    [name |-> r.name, price |-> ToFloat(r.price),
     description |-> r.description, id |-> r.id]

(***************************************************************************)
(* Requests and responses                                                  *)
(***************************************************************************)
\* the inputs of Spec
Wide ==
    [names |-> {None, Some(NameEmpty), Some(NameBlank), Some(NameA),
                Some(NamePadded), Some(NameLong)},
     descriptions |-> {None, Some(DescD), Some(DescLong)},
     createPrices |-> {None, Some(NotANumber), Some(PriceNegative),
                       Some(PriceZero), Some(PriceMilli), Some(PriceHuge)},
     updateDescriptions |-> {None, Some(DescD), Some(DescLong)},
     updatePrices |-> {None, Some(PriceNegative), Some(PriceZero),
                       Some(PriceMilli), Some(PriceHuge)},
     pathNames |-> {NameA, NamePadded, NameLong}]

\* the inputs of SpecConc
Narrow ==
    [names |-> {Some(NameA), Some(NameB)},
     descriptions |-> {None},
     createPrices |-> {Some(PriceCents)},
     updateDescriptions |-> {None, Some(DescD)},
     updatePrices |-> {None, Some(PriceZero)},
     pathNames |-> {NameA, NameB}]

PathIds == 1..MaxId

CreateBodies(in) ==
    [name : in.names, price : in.createPrices, description : in.descriptions]
UpdateBodies(in) ==
    [price : in.updatePrices, description : in.updateDescriptions]

Request(o, i, n, d, p) ==
    [name |-> n, price |-> p, description |-> d, id |-> i, op |-> o]
NoRequest == Request("none", 0, <<>>, None, None)

\* what the session of a handler holds between two statements: the Product
\* object as it was loaded or inserted, and the handler's list updates
Loaded(row, fields) == [row |-> row, fields |-> fields]
NoRow == [name |-> <<>>, price |-> [neg |-> FALSE, whole |-> 0, cents |-> 0],
          description |-> None, id |-> 0]
NoLoaded == Loaded(NoRow, <<>>)

Response(o, st, m, i, n, fields, body) ==
    [body |-> body, name |-> n, id |-> i, op |-> o, fields |-> fields,
     client |-> "", status |-> st, msg |-> m]
NoResponse == Response("none", 0, "", 0, <<>>, <<>>, {})

\* HTTPException(status_code, detail) and the framework's own error answers
Error(o, st) == Response(o, st, "error", 0, <<>>, <<>>, {})

\* raise HTTPException(status_code=st) inside the try block of handler o:
\* `except HTTPException: raise` passes it on as it is
HTTPException(o, st) == Error(o, st)

InFlight(c) == pc[c] # "idle"

\* the handler of c returns or raises: its answer is sent
Reply(c, r) ==
    /\ resp' = [r EXCEPT !.client = c]
    /\ pc' = [pc EXCEPT ![c] = "idle"]
    /\ req' = [req EXCEPT ![c] = NoRequest]
    /\ loc' = [loc EXCEPT ![c] = NoLoaded]

\* the handler of c returns or raises under get_db: its answer is sent,
\* the finally clause of get_db closes the session
Answer(c, r) ==
    /\ Reply(c, r)
    /\ sess' = [sess EXCEPT ![c] = FALSE]

\* the handler of c goes on to its next database statement
Goto(c, l, ld) ==
    /\ pc' = [pc EXCEPT ![c] = l]
    /\ loc' = [loc EXCEPT ![c] = ld]
    /\ resp' = NoResponse
    /\ UNCHANGED <<req, sess>>

Init ==
    /\ table = {}
    /\ seq = 0
    /\ dbUp = TRUE
    /\ pc = [c \in Clients |-> "idle"]
    /\ req = [c \in Clients |-> NoRequest]
    /\ loc = [c \in Clients |-> NoLoaded]
    /\ resp = NoResponse
    /\ sess = [c \in Clients |-> FALSE]

(***************************************************************************)
(* Arrival of a request: FastAPI solves the dependency get_db, validates   *)
(* the body against the handler's schema, and calls the handler.           *)
(***************************************************************************)
\* get_db: SessionLocal(), SELECT 1; TRUE when the session is yielded
GetDb == dbUp

Accept(c, r) ==
    /\ pc' = [pc EXCEPT ![c] = "query"]
    /\ req' = [req EXCEPT ![c] = r]
    /\ resp' = NoResponse
    /\ sess' = [sess EXCEPT ![c] = TRUE]
    /\ UNCHANGED loc

\* a request that needs a session arrives for handler o; ok: its path and
\* body pass validation, r: the request as the handler receives it
Arrive(c, o, ok, r) ==
    /\ pc[c] = "idle"
    /\ UNCHANGED <<table, seq, dbUp>>
    /\ IF ~GetDb THEN Answer(c, Error(o, 500))
       ELSE IF ~ok THEN Answer(c, Error(o, 422))
       ELSE Accept(c, r)

ArriveGetProducts(c) ==
    Arrive(c, "get_products", TRUE, Request("get_products", 0, <<>>, None, None))

ArriveGetProductById(c) ==
    \E i \in PathIds :
        Arrive(c, "get_product_by_id", TRUE,
               Request("get_product_by_id", i, <<>>, None, None))

ArriveGetProductByName(c, in) ==
    \E n \in in.pathNames :
        Arrive(c, "get_product_by_name", TRUE,
               Request("get_product_by_name", 0, n, None, None))

\* ids still to be handed out to the creates in flight
CreatesInFlight == Cardinality({d \in Clients : req[d].op = "create_product"})

\* POST /products with body b
CreateArrival(c, b) ==
    LET v == ProductCreate(b)
    IN  Arrive(c, "create_product", v.ok,
               Request("create_product", 0, v.name, v.description, v.price))

ArriveCreateProduct(c, in) ==
    /\ seq + CreatesInFlight < MaxId
    /\ \E b \in CreateBodies(in) : CreateArrival(c, b)

ArriveDeleteProduct(c) ==
    \E i \in PathIds :
        Arrive(c, "delete_product", TRUE,
               Request("delete_product", i, <<>>, None, None))

\* PUT /products/name/{n} with body b
UpdateArrival(c, n, b) ==
    LET v == ProductUpdate(b)
    IN  Arrive(c, "update_product_by_name", v.ok,
               Request("update_product_by_name", 0, n, v.description, v.price))

ArriveUpdateProductByName(c, in) ==
    \E n \in in.pathNames, b \in UpdateBodies(in) : UpdateArrival(c, n, b)

(***************************************************************************)
(* Read handlers                                                           *)
(***************************************************************************)
AtQuery(c, o) == pc[c] = "query" /\ req[c].op = o /\ dbUp

\* the answer of get_products on table t
GetProductsResult(t) ==
    Response("get_products", 200, "", 0, <<>>, <<>>, {ProductJson(r) : r \in t})

\* the answer of get_product_by_id(i) on table t
GetProductByIdResult(t, i) ==
    LET product == QueryById(t, i)
    IN  IF IsNone(product) THEN Error("get_product_by_id", 404)
        ELSE Response("get_product_by_id", 200, "", 0, <<>>, <<>>,
                      {ProductJson(Val(product))})

\* the answer of get_product_by_name(n) on table t
GetProductByNameResult(t, n) ==
    LET product == QueryByName(t, n)
    IN  IF IsNone(product) THEN Error("get_product_by_name", 404)
        ELSE Response("get_product_by_name", 200, "", 0, <<>>, <<>>,
                      {ProductJson(Val(product))})

get_products(c) ==
    /\ AtQuery(c, "get_products")
    /\ Answer(c, GetProductsResult(table))
    /\ UNCHANGED <<table, seq, dbUp>>

get_product_by_id(c) ==
    /\ AtQuery(c, "get_product_by_id")
    /\ Answer(c, GetProductByIdResult(table, req[c].id))
    /\ UNCHANGED <<table, seq, dbUp>>

get_product_by_name(c) ==
    /\ AtQuery(c, "get_product_by_name")
    /\ Answer(c, GetProductByNameResult(table, req[c].name))
    /\ UNCHANGED <<table, seq, dbUp>>

(***************************************************************************)
(* create_product                                                          *)
(***************************************************************************)
\* a pre-check that filters on the id of the request instead of its name
CreateExistingById(t, product) == QueryById(t, product.id)

\* existing = db.query(Product).filter(Product.name == product.name).first()
CreateExisting(t, product) == QueryByName(t, product.name)

\* a create that stores the empty string for a description left out
NewProductEmptyDefault(i, product) ==
    Product(i, product.name,
            IF IsNone(product.description) THEN Some(<<>>) ELSE product.description,
            ToNumeric(Val(product.price)))

\* new_product = Product(name, description, price=float(product.price)) as
\* the INSERT stores it under id i
NewProduct(i, product) ==
    Product(i, product.name, product.description, ToNumeric(Val(product.price)))

\* a name column without unique=True
InsertRaisesOverflowOnly(t, product) == Overflows(Val(product.price))

\* the INSERT of db.commit() raises: numeric field overflow, or the unique
\* index on name
InsertRaises(t, product) ==
    \/ Overflows(Val(product.price))
    \/ UniqueViolation(t, product.name)

\* the answer to an exception other than HTTPException caught in create_product
CreateFailure == Error("create_product", 500)

create_product_check(c) ==
    /\ AtQuery(c, "create_product")
    /\ IF ~IsNone(CreateExisting(table, req[c]))
       THEN Answer(c, HTTPException("create_product", 409))
       ELSE Goto(c, "commit", NoLoaded)
    /\ UNCHANGED <<table, seq, dbUp>>

\* an id column filled as one more than the largest id stored
NextIdRowid(t, s) ==
    IF t = {} THEN 1 ELSE (CHOOSE i \in {r.id : r \in t} : \A r \in t : r.id <= i) + 1

\* id = Column(Integer, primary_key=True) on PostgreSQL: the id of an
\* INSERT is the next value of the sequence of the table
NextId(t, s) == s + 1

\* db.add(new_product); db.commit(): the INSERT draws the next id of the
\* sequence whether or not it succeeds
create_product_commit(c) ==
    /\ pc[c] = "commit" /\ req[c].op = "create_product" /\ dbUp
    /\ seq' = seq + 1
    /\ LET new_product == NewProduct(NextId(table, seq), req[c])
       IN  IF InsertRaises(table, req[c])
           THEN /\ Answer(c, CreateFailure)
                /\ table' = table
           ELSE /\ table' = table \cup {new_product}
                /\ Goto(c, "refresh", Loaded(new_product, <<>>))
    /\ UNCHANGED dbUp

\* db.refresh(new_product) and the return
create_product_refresh(c) ==
    /\ pc[c] = "refresh" /\ req[c].op = "create_product" /\ dbUp
    /\ LET row == QueryById(table, loc[c].row.id)
       IN  IF IsNone(row)
           THEN Answer(c, CreateFailure)
           ELSE Answer(c, Response("create_product", 201,
                                   "Product created successfully",
                                   Val(row).id, Val(row).name, <<>>, {}))
    /\ UNCHANGED <<table, seq, dbUp>>

(***************************************************************************)
(* delete_product                                                          *)
(***************************************************************************)
\* a DELETE without its WHERE clause
DeleteRowAll(t, i) == {}

\* a delete that leaves the row in the table
DeleteRowSoft(t, i) == t

\* db.delete(product); db.commit(): DELETE FROM products WHERE id = i
DeleteRow(t, i) == {r \in t : r.id # i}

delete_product_query(c) ==
    /\ AtQuery(c, "delete_product")
    /\ LET product == QueryById(table, req[c].id)
       IN  IF IsNone(product)
           THEN Answer(c, HTTPException("delete_product", 404))
           ELSE Goto(c, "commit", Loaded(Val(product), <<>>))
    /\ UNCHANGED <<table, seq, dbUp>>

delete_product_commit(c) ==
    /\ pc[c] = "commit" /\ req[c].op = "delete_product" /\ dbUp
    /\ table' = DeleteRow(table, loc[c].row.id)
    /\ Answer(c, Response("delete_product", 200, "Product deleted successfully",
                          req[c].id, loc[c].row.name, <<>>, {}))
    /\ UNCHANGED <<seq, dbUp>>

(***************************************************************************)
(* update_product_by_name                                                  *)
(***************************************************************************)
\* a lookup that trims the path parameter
UpdateTargetStripped(t, product_name) == QueryByName(t, Strip(product_name))

\* product = db.query(Product).filter(Product.name == product_name).first()
UpdateTarget(t, product_name) == QueryByName(t, product_name)

\* a handler that appends both field names whatever the body holds
UpdatedFieldsAlways(update) == <<"description", "price">>

\* the list updates the handler builds
UpdatedFields(update) ==
    (IF ~IsNone(update.description) THEN <<"description">> ELSE <<>>)
    \o (IF ~IsNone(update.price) THEN <<"price">> ELSE <<>>)

\* a flush that writes the description column on every UPDATE, changed or
\* not
DirtyAttrsDescriptionAlways(row, update) ==
    {"description"}
    \cup
    {a \in {"price"} :
        ~IsNone(update.price) /\ Val(update.price) # ToFloat(row.price)}

\* the attributes of the loaded row whose assigned value differs from the
\* loaded one: the columns the UPDATE of the flush sets
DirtyAttrs(row, update) ==
    {a \in {"description"} :
        ~IsNone(update.description) /\ update.description # row.description}
    \cup
    {a \in {"price"} :
        ~IsNone(update.price) /\ Val(update.price) # ToFloat(row.price)}

\* a handler that assigns product.description without the test for None
FlushUpdateDescription(row, dirty, update) ==
    [row EXCEPT
        !.description = update.description,
        !.price = IF "price" \in dirty THEN ToNumeric(Val(update.price)) ELSE @]

\* UPDATE products SET <dirty columns> WHERE id = row.id
FlushUpdate(row, dirty, update) ==
    [row EXCEPT
        !.description = IF "description" \in dirty THEN update.description ELSE @,
        !.price = IF "price" \in dirty THEN ToNumeric(Val(update.price)) ELSE @]

\* the UPDATE of db.commit() raises: no row matched, or numeric field overflow
UpdateRaises(t, row, update) ==
    /\ DirtyAttrs(row, update) # {}
    /\ \/ IsNone(QueryById(t, row.id))
       \/ "price" \in DirtyAttrs(row, update) /\ Overflows(Val(update.price))

UpdateFailure == Error("update_product_by_name", 500)

update_product_by_name_query(c) ==
    /\ AtQuery(c, "update_product_by_name")
    /\ LET product == UpdateTarget(table, req[c].name)
       IN  IF IsNone(product)
           THEN Answer(c, HTTPException("update_product_by_name", 404))
           ELSE IF UpdatedFields(req[c]) = <<>>
           THEN Answer(c, Response("update_product_by_name", 200,
                                   "No fields to update", 0, <<>>, <<>>, {}))
           ELSE Goto(c, "commit", Loaded(Val(product), UpdatedFields(req[c])))
    /\ UNCHANGED <<table, seq, dbUp>>

\* an UPDATE without its WHERE clause
ApplyUpdateAll(t, row, update) ==
    {FlushUpdate(r, DirtyAttrs(row, update), update) : r \in t}

\* db.commit(): UPDATE products SET ... WHERE id = row.id, row as the
\* session loaded it
ApplyUpdate(t, row, update) ==
    {IF r.id = row.id
     THEN FlushUpdate(r, DirtyAttrs(row, update), update)
     ELSE r : r \in t}

update_product_by_name_commit(c) ==
    /\ pc[c] = "commit" /\ req[c].op = "update_product_by_name" /\ dbUp
    /\ IF UpdateRaises(table, loc[c].row, req[c])
       THEN /\ Answer(c, UpdateFailure)
            /\ table' = table
       ELSE /\ table' = ApplyUpdate(table, loc[c].row, req[c])
            /\ Goto(c, "refresh", loc[c])
    /\ UNCHANGED <<seq, dbUp>>

\* product.id and product.name after the commit expired them: the row is
\* loaded again
update_product_by_name_refresh(c) ==
    /\ pc[c] = "refresh" /\ req[c].op = "update_product_by_name" /\ dbUp
    /\ LET row == QueryById(table, loc[c].row.id)
       IN  IF IsNone(row)
           THEN Answer(c, UpdateFailure)
           ELSE Answer(c, Response("update_product_by_name", 200,
                                   "Product updated successfully",
                                   Val(row).id, Val(row).name, loc[c].fields, {}))
    /\ UNCHANGED <<table, seq, dbUp>>

(***************************************************************************)
(* Health checks                                                           *)
(***************************************************************************)
\* GET /health of app.py: no session, no statement
health_check(c) ==
    /\ pc[c] = "idle"
    /\ Reply(c, Response("health_check", 200, "healthy", 0, <<>>, <<>>, {}))
    /\ UNCHANGED <<table, seq, dbUp, sess>>

\* GET /health of app/main.py, the stand-alone application
app_main_health_check(c) ==
    /\ pc[c] = "idle"
    /\ Reply(c, Response("app_main_health_check", 200, "healthy",
                          0, <<>>, <<>>, {}))
    /\ UNCHANGED <<table, seq, dbUp, sess>>

\* a detailed health check that swallows the exception of SELECT 1
DetailedHealthAlwaysConnected(up) ==
    Response("detailed_health_check", 200, "connected", 0, <<>>, <<>>, {})

\* the answer of GET /health/detailed; up: SELECT 1 succeeds
DetailedHealth(up) ==
    IF up
    THEN Response("detailed_health_check", 200, "connected", 0, <<>>, <<>>, {})
    ELSE Error("detailed_health_check", 503)

\* db = SessionLocal(); db.execute(text('SELECT 1')); db.close(): the
\* session is closed on the path where SELECT 1 succeeds, and on no other
detailed_health_check(c) ==
    /\ pc[c] = "idle"
    /\ Reply(c, DetailedHealth(dbUp))
    /\ sess' = [sess EXCEPT ![c] = ~dbUp]
    /\ UNCHANGED <<table, seq, dbUp>>

(***************************************************************************)
(* The database                                                            *)
(***************************************************************************)
\* a statement of a handler in flight raises because the database is
\* unreachable: the handler rolls back and answers 500
StorageFailure(c) ==
    /\ InFlight(c)
    /\ ~dbUp
    /\ Answer(c, Error(req[c].op, 500))
    /\ UNCHANGED <<table, seq, dbUp>>

DbDown ==
    /\ dbUp
    /\ dbUp' = FALSE
    /\ resp' = NoResponse
    /\ UNCHANGED <<table, seq, pc, req, loc, sess>>

DbRestore ==
    /\ ~dbUp
    /\ dbUp' = TRUE
    /\ resp' = NoResponse
    /\ UNCHANGED <<table, seq, pc, req, loc, sess>>

\* the handlers that write the table, and the read by name
WriteHandler(c, in) ==
    \/ ArriveGetProductByName(c, in)
    \/ ArriveCreateProduct(c, in)
    \/ ArriveDeleteProduct(c)
    \/ ArriveUpdateProductByName(c, in)
    \/ get_product_by_name(c)
    \/ create_product_check(c)
    \/ create_product_commit(c)
    \/ create_product_refresh(c)
    \/ delete_product_query(c)
    \/ delete_product_commit(c)
    \/ update_product_by_name_query(c)
    \/ update_product_by_name_commit(c)
    \/ update_product_by_name_refresh(c)

\* the other reads and the health checks
ReadHandler(c) ==
    \/ ArriveGetProducts(c)
    \/ ArriveGetProductById(c)
    \/ get_products(c)
    \/ get_product_by_id(c)
    \/ health_check(c)
    \/ app_main_health_check(c)
    \/ detailed_health_check(c)

Handler(c, in) == WriteHandler(c, in) \/ ReadHandler(c)

\* one request at a time, every class of input, the database may fail
Next ==
    \/ Handler("c1", Wide)
    \/ StorageFailure("c1")
    \/ DbDown
    \/ DbRestore

Spec == Init /\ [][Next]_vars

\* the writing requests of all clients interleaved
NextConc == \E c \in Clients : WriteHandler(c, Narrow)

SpecConc == Init /\ [][NextConc]_vars

(***************************************************************************)
(* Properties                                                              *)
(***************************************************************************)
Stored(t, n) == \E r \in t : r.name = n
StoredId(t, i) == \E r \in t : r.id = i

\* d, rounded to two places, has at most precision - scale digits before
\* the point
Fits(d) ==
    \/ d.whole < Pow10(NumericPrecision - NumericScale) - 1
    \/ d.whole = Pow10(NumericPrecision - NumericScale) - 1 /\ d.milli < 995

\* got is the non-negative Decimal d rounded to two places
RoundsTo(d, got) ==
    /\ got.num /\ got.neg = d.neg
    /\ got.milli % 10 = 0
    /\ 1000 * (got.whole - d.whole) + (got.milli - d.milli) \in -4..5

\* the product object both read handlers return for the row with id i and
\* name n: 200 and the same body
Retrievable(t, i, n) ==
    /\ GetProductByIdResult(t, i).status = 200
    /\ GetProductByNameResult(t, n).status = 200
    /\ GetProductByIdResult(t, i).body = GetProductByNameResult(t, n).body

\* C1 as stated: a create request whose trimmed name is not stored and whose
\* price is >= 0 (it passed validation and the pre-check) inserts its row,
\* get_product_by_id and get_product_by_name then return 200 with the id,
\* name, description and price submitted, and the answer is 201 with the id
\* and name of the row.
C1_AsStated ==
    [][\A c \in Clients :
        /\ create_product_commit(c) =>
             /\ pc'[c] = "refresh"
             /\ Retrievable(table', seq + 1, req[c].name)
             /\ GetProductByIdResult(table', seq + 1).body =
                  {[name |-> req[c].name, price |-> Val(req[c].price),
                    description |-> req[c].description, id |-> seq + 1]}
        /\ create_product_refresh(c) =>
             /\ resp'.status = 201
             /\ resp'.id = loc[c].row.id /\ resp'.name = req[c].name
      ]_vars

\* C1 amended: a create request whose trimmed name is not stored when its
\* INSERT runs and whose price p >= 0 fits NUMERIC(10,2) inserts its row;
\* get_product_by_id and get_product_by_name then return 200 with the id,
\* the trimmed name, the description submitted and p rounded to two places;
\* the answer is 201 with the id and name when the row is still stored at
\* db.refresh.
C1_CreateRetrievable ==
    [][\A c \in Clients :
        /\ ( /\ create_product_commit(c)
             /\ ~Stored(table, req[c].name)
             /\ Fits(Val(req[c].price)) ) =>
             /\ pc'[c] = "refresh"
             /\ Retrievable(table', seq + 1, req[c].name)
             /\ \E j \in GetProductByIdResult(table', seq + 1).body :
                  /\ GetProductByIdResult(table', seq + 1).body = {j}
                  /\ j.id = seq + 1
                  /\ j.name = req[c].name
                  /\ j.description = req[c].description
                  /\ RoundsTo(Val(req[c].price), j.price)
        /\ (create_product_refresh(c) /\ StoredId(table, loc[c].row.id)) =>
             /\ resp'.status = 201 /\ resp'.client = c
             /\ resp'.id = loc[c].row.id /\ resp'.name = req[c].name
      ]_vars

\* a create was answered 201 for a row whose price was rounded up
C1_Witness ==
    /\ resp.op = "create_product" /\ resp.status = 201
    /\ \E r \in table :
         r.id = resp.id /\ r.name = resp.name /\ r.price.cents = 51

\* C2: a create request whose name is the name of a stored product is
\* answered 409, adds no row and leaves every stored row as it was.
C2_DuplicateConflict ==
    [][\A c \in Clients :
        (create_product_check(c) /\ Stored(table, req[c].name)) =>
            /\ resp'.status = 409 /\ resp'.client = c
            /\ resp'.op = "create_product"
            /\ pc'[c] = "idle"
            /\ table' = table
      ]_vars

\* a create was answered 409 while a product is stored
C2_Witness ==
    resp.op = "create_product" /\ resp.status = 409 /\ table # {}

\* C3 as stated: when the INSERT of a create is refused by the unique index
\* on name, because a concurrent create of the same name inserted after this
\* one's pre-check, the request is answered 409.
C3_AsStated ==
    [][\A c \in Clients :
        (create_product_commit(c) /\ Stored(table, req[c].name)) =>
            resp'.status = 409
      ]_vars

\* C4: no two stored products have the same name.
C4_UniqueNames ==
    \A r1 \in table, r2 \in table : r1.name = r2.name => r1 = r2

\* two creates of one name both passed the pre-check, one has inserted its
\* row and the other is about to insert
C4_Witness ==
    \E c \in Clients, d \in Clients :
        /\ c # d
        /\ req[c].op = "create_product" /\ pc[c] = "refresh"
        /\ req[d].op = "create_product" /\ pc[d] = "commit"
        /\ req[c].name = req[d].name
        /\ Stored(table, req[d].name)

\* the bodies C5 names: name missing, empty or only whitespace; price
\* missing, not numeric or negative
C5_Invalid(b) ==
    \/ IsNone(b.name)
    \/ \A k \in 1..Len(Val(b.name)) : Val(b.name)[k] = " "
    \/ IsNone(b.price)
    \/ ~Val(b.price).num
    \/ Val(b.price).neg /\ Val(b.price).whole + Val(b.price).milli > 0

C5_InvalidBodies == {x \in CreateBodies(Wide) : C5_Invalid(x)}

\* C5: with the database reachable, a create request with such a body is
\* answered 422 before the handler runs, and the table is the same before
\* and after it.
C5_CreateRejected ==
    [][\A c \in Clients :
        ( /\ pc[c] = "idle"
          /\ \/ req'[c].op = "create_product"
             \/ resp'.op = "create_product" /\ resp'.client = c
          /\ \E b \in C5_InvalidBodies : CreateArrival(c, b) ) =>
            /\ table' = table
            /\ pc'[c] = "idle"
            /\ dbUp => (resp'.status = 422 /\ resp'.client = c
                        /\ resp'.op = "create_product")
      ]_vars

\* a create was answered 422
C5_Witness == resp.op = "create_product" /\ resp.status = 422

\* C6 as stated: the schemas reject a name longer than 120 characters and a
\* description longer than 255 characters, so no stored product has a name
\* longer than 120 or a description longer than 255 characters.
C6_AsStated ==
    \A r \in table :
        /\ Len(r.name) <= MaxNameLen
        /\ IsNone(r.description) \/ Len(Val(r.description)) <= MaxDescLen

\* the fields an update body supplies, in the order description, price
C7_Supplied(u) ==
    SelectSeq(<<"description", "price">>,
              LAMBDA f : IF f = "description" THEN ~IsNone(u.description)
                         ELSE ~IsNone(u.price))

\* the row the update of c loaded is stored as it was loaded
C7_AsLoaded(c) == QueryById(table, loc[c].row.id) = Some(loc[c].row)

\* table' is table with row old replaced by new
C7_Replaced(old, new) == table' \ {new} = table \ {old}

\* C7 as stated: an update of an existing product is applied and answered
\* 200; it changes exactly the fields supplied, each supplied field then
\* holds the supplied value, and updated_fields is the list of the supplied
\* fields in the order description, price.
C7_AsStated ==
    [][\A c \in Clients :
        /\ (update_product_by_name_commit(c) /\ C7_AsLoaded(c)) =>
             /\ pc'[c] = "refresh"
             /\ \E new \in table' :
                  /\ C7_Replaced(loc[c].row, new)
                  /\ new.id = loc[c].row.id /\ new.name = loc[c].row.name
                  /\ new.description =
                       IF IsNone(req[c].description) THEN loc[c].row.description
                       ELSE req[c].description
                  /\ IF IsNone(req[c].price) THEN new.price = loc[c].row.price
                     ELSE ToFloat(new.price) = Val(req[c].price)
        /\ update_product_by_name_refresh(c) =>
             /\ resp'.status = 200
             /\ resp'.fields = C7_Supplied(req[c])
      ]_vars

\* C7 amended: for a product that is stored, and unchanged since the update
\* looked it up, when the update commits: the update changes exactly the
\* fields supplied and nothing else; a supplied description then holds the
\* supplied value and a supplied price the supplied value rounded to two
\* places; a supplied price that does not fit NUMERIC(10,2) is answered 500
\* and changes nothing.  An update that finds the row again after its commit
\* is answered 200 and updated_fields is the list of the supplied fields in
\* the order description, price.
C7_PartialUpdate ==
    [][\A c \in Clients :
        /\ ( /\ update_product_by_name_commit(c)
             /\ C7_AsLoaded(c)
             /\ ~IsNone(req[c].price)
             /\ ~Fits(Val(req[c].price)) ) =>
             /\ resp'.status = 500 /\ resp'.client = c
             /\ table' = table
        /\ ( /\ update_product_by_name_commit(c)
             /\ C7_AsLoaded(c)
             /\ IsNone(req[c].price) \/ Fits(Val(req[c].price)) ) =>
             /\ pc'[c] = "refresh"
             /\ \E new \in table' :
                  /\ C7_Replaced(loc[c].row, new)
                  /\ new.id = loc[c].row.id /\ new.name = loc[c].row.name
                  /\ new.description =
                       IF IsNone(req[c].description) THEN loc[c].row.description
                       ELSE req[c].description
                  /\ IF IsNone(req[c].price) THEN new.price = loc[c].row.price
                     ELSE RoundsTo(Val(req[c].price), ToFloat(new.price))
        /\ ( /\ update_product_by_name_refresh(c)
             /\ StoredId(table, loc[c].row.id) ) =>
             /\ resp'.status = 200 /\ resp'.client = c
             /\ resp'.msg = "Product updated successfully"
             /\ resp'.fields = C7_Supplied(req[c])
      ]_vars

\* an update that supplied only the price was answered 200, and the row
\* holds the rounded price next to a description
C7_Witness ==
    /\ resp.op = "update_product_by_name" /\ resp.status = 200
    /\ resp.fields = <<"price">>
    /\ \E r \in table :
         r.id = resp.id /\ r.price.cents = 51 /\ ~IsNone(r.description)

\* C8: an update request for a stored product whose body supplies neither
\* description nor price is answered "No fields to update"; the handler
\* returns without a commit and every stored product is unchanged.
C8_EmptyUpdate ==
    [][\A c \in Clients :
        ( /\ update_product_by_name_query(c)
          /\ Stored(table, req[c].name)
          /\ IsNone(req[c].description) /\ IsNone(req[c].price) ) =>
            /\ resp'.msg = "No fields to update"
            /\ resp'.status = 200 /\ resp'.client = c
            /\ pc'[c] = "idle"
            /\ table' = table
      ]_vars

\* an update was answered "No fields to update" while a product is stored
C8_Witness ==
    /\ resp.op = "update_product_by_name"
    /\ resp.msg = "No fields to update"
    /\ table # {}

\* the update bodies that pass validation: no price, or a number >= 0
C9_Valid(b) ==
    \/ IsNone(b.price)
    \/ Val(b.price).num /\ ~(Val(b.price).neg /\ Val(b.price).whole + Val(b.price).milli > 0)

\* an update request for a name that is not stored arrives at c with a body
\* of the set bodies, the database being reachable
C9_Arrival(c, bodies) ==
    /\ pc[c] = "idle" /\ dbUp
    /\ \/ req'[c].op = "update_product_by_name"
       \/ resp'.op = "update_product_by_name" /\ resp'.client = c
    /\ \E n \in Wide.pathNames, b \in bodies :
         ~Stored(table, n) /\ UpdateArrival(c, n, b)

\* C9 as stated: an update request addressed to a name that no stored
\* product has is answered 404, whatever its body, and changes no stored
\* product.
C9_AsStated ==
    [][\A c \in Clients :
        /\ C9_Arrival(c, UpdateBodies(Wide)) =>
             /\ resp'.status \in {0, 404}
             /\ table' = table
        /\ (update_product_by_name_query(c) /\ ~Stored(table, req[c].name)) =>
             /\ resp'.status = 404
             /\ table' = table
      ]_vars

C9_ValidBodies == {b \in UpdateBodies(Wide) : C9_Valid(b)}

\* C9 amended: an update request addressed to a name that no stored product
\* has when the handler looks it up is answered 404 for every body that
\* passes validation, the empty one included, and changes no stored product;
\* a body that fails validation is answered 422 before the handler runs.
C9_UpdateNotFound ==
    [][\A c \in Clients :
        /\ C9_Arrival(c, C9_ValidBodies) =>
             /\ pc'[c] = "query"
             /\ table' = table
        /\ C9_Arrival(c, UpdateBodies(Wide) \ C9_ValidBodies) =>
             /\ resp'.status = 422
             /\ table' = table
        /\ (update_product_by_name_query(c) /\ ~Stored(table, req[c].name)) =>
             /\ resp'.status = 404 /\ resp'.client = c
             /\ pc'[c] = "idle"
             /\ table' = table
      ]_vars

\* an update was answered 404 while a product is stored
C9_Witness ==
    resp.op = "update_product_by_name" /\ resp.status = 404 /\ table # {}

\* C10: delete_product on a stored id removes exactly that row and returns
\* its id and name, get_product_by_id on that id then returns 404 and all
\* other stored products are unchanged; delete_product on an id that is not
\* stored returns 404 and changes nothing.
C10_Delete ==
    [][\A c \in Clients :
        /\ delete_product_commit(c) =>
             /\ table' = {r \in table : r.id # req[c].id}
             /\ GetProductByIdResult(table', req[c].id).status = 404
             /\ resp'.status = 200 /\ resp'.client = c
             /\ resp'.id = req[c].id
             /\ \A r \in table : r.id = req[c].id => resp'.name = r.name
        /\ (delete_product_query(c) /\ StoredId(table, req[c].id)) =>
             pc'[c] = "commit"
        /\ (delete_product_query(c) /\ ~StoredId(table, req[c].id)) =>
             /\ resp'.status = 404 /\ resp'.client = c
             /\ pc'[c] = "idle"
             /\ table' = table
      ]_vars

\* a delete was answered 200, its row is gone and another row is stored
C10_Witness ==
    /\ resp.op = "delete_product" /\ resp.status = 200
    /\ ~StoredId(table, resp.id)
    /\ table # {}

(***************************************************************************)
(* C11: ids are not assigned twice                                         *)
(***************************************************************************)
\* the ids the sequence of the table has handed out so far
IssuedIds == 1..seq

C12_Omitted(c) ==
    /\ pc[c] = "commit" /\ req[c].op = "create_product"
    /\ IsNone(req[c].description)
    /\ pc'[c] = "refresh"

\* what a get of the row just inserted by c answers as description
C12_Got(c, d) ==
    /\ loc'[c].row \in table'
    /\ \A j \in GetProductByIdResult(table', loc'[c].row.id).body :
         j.description = d
    /\ \A j \in GetProductByNameResult(table', loc'[c].row.name).body :
         j.description = d
    /\ GetProductByIdResult(table', loc'[c].row.id).status = 200
    /\ GetProductByNameResult(table', loc'[c].row.name).status = 200

C13_Health ==
    /\ [](\A c \in Clients :
            pc[c] = "idle" => /\ ENABLED health_check(c)
                              /\ ENABLED app_main_health_check(c))
    /\ [][\A c \in Clients :
            /\ (health_check(c) \/ app_main_health_check(c))
               => /\ resp'.status = 200 /\ resp'.client = c
                  /\ sess' = sess
                  /\ UNCHANGED <<table, seq, dbUp>>
            /\ detailed_health_check(c)
               => /\ resp'.client = c
                  /\ dbUp => resp'.status = 200 /\ resp'.msg = "connected"
                  /\ ~dbUp => resp'.status = 503]_vars

\* GET /health was answered 200 while the database is unreachable
C13_Witness ==
    /\ resp.op = "health_check" /\ resp.status = 200
    /\ ~dbUp

(***************************************************************************)
(* C14: prices are not negative                                            *)
(***************************************************************************)
\* a body that carries a price below zero
C14_Negative(b) ==
    /\ ~IsNone(b.price)
    /\ Val(b.price).num
    /\ Val(b.price).neg /\ Val(b.price).whole + Val(b.price).milli > 0

C14_NegativeCreates == {x \in CreateBodies(Wide) : C14_Negative(x)}

C14_NegativeUpdates == {x \in UpdateBodies(Wide) : C14_Negative(x)}

\* a stored price is zero or above
C14_NonNegative(p) == ~p.neg \/ (p.whole = 0 /\ p.cents = 0)

\* C14: every stored product has a price of zero or more after every step
\* (the table is empty at the start); a create or an update whose body carries a negative
\* price does not reach its handler, is answered 422 when the database is
\* reachable, and leaves the table as it is.
C14_PriceNeverNegative ==
    [][/\ \A r \in table' : C14_NonNegative(r.price)
       /\ \A c \in Clients :
            ( /\ pc[c] = "idle"
              /\ resp'.client = c
              /\ resp'.op \in {"create_product", "update_product_by_name"}
              /\ \/ \E b \in C14_NegativeCreates : CreateArrival(c, b)
                 \/ \E n \in Wide.pathNames, b \in C14_NegativeUpdates :
                      UpdateArrival(c, n, b) ) =>
               /\ table' = table
               /\ pc'[c] = "idle"
               /\ dbUp => resp'.status = 422]_vars

\* an update was answered 422 while a product is stored
C14_Witness ==
    /\ resp.op = "update_product_by_name" /\ resp.status = 422
    /\ table # {}

(***************************************************************************)
(* C15: id and name are fixed, an update writes one row                    *)
(***************************************************************************)
\* C15: no step changes the id or the name of a row it leaves stored, and
\* the UPDATE of update_product_by_name leaves every row stored, with its id
\* and name, and leaves every row under another name than the one addressed
\* as it is.
C15_IdentityFrame ==
    [][/\ \A r \in table, r2 \in table' :
            /\ r.id = r2.id => r.name = r2.name
            /\ r.name = r2.name => r.id = r2.id
       /\ \A c \in Clients :
            update_product_by_name_commit(c) =>
               /\ {[name |-> r.name, id |-> r.id] : r \in table'}
                    = {[name |-> r.name, id |-> r.id] : r \in table}
               /\ \A r \in table : r.name # req[c].name => r \in table'
               /\ \A r \in table : r.id # loc[c].row.id => r \in table']_vars

\* an update that wrote a field was answered 200 while another product is
\* stored
C15_Witness ==
    /\ resp.op = "update_product_by_name" /\ resp.status = 200
    /\ resp.fields # <<>>
    /\ \E r \in table : r.id # resp.id
    /\ \E r \in table : r.id = resp.id /\ r.name = resp.name

(***************************************************************************)
(* C16: sessions are closed                                                *)
(***************************************************************************)
\* C16 as stated: once the request of a client is answered, the session its
\* handler opened has been closed; no session is open for a client that has
\* no request in flight.
C16_AsStated == \A c \in Clients : pc[c] = "idle" => ~sess[c]

(***************************************************************************)
(* C17: storage failures in the writing handlers                           *)
(***************************************************************************)
C17_Writes == {"create_product", "update_product_by_name", "delete_product"}

\* a statement of the writing handler of c raises an unexpected exception
C17_Fails(c) ==
    /\ InFlight(c) /\ req[c].op \in C17_Writes
    /\ \/ StorageFailure(c)
       \/ create_product_commit(c) /\ InsertRaises(table, req[c])
       \/ update_product_by_name_commit(c) /\ UpdateRaises(table, loc[c].row, req[c])

\* C17 as stated: a writing handler whose statement fails answers 500 and
\* the table is the same as before the request: the failing statement
\* changes nothing, a create that fails after its INSERT has left no row,
\* an update that fails after its UPDATE has left the row as it loaded it.
C17_AsStated ==
    [][\A c \in Clients :
         C17_Fails(c) =>
            /\ resp'.status = 500 /\ resp'.client = c
            /\ table' = table
            /\ (pc[c] = "refresh" /\ req[c].op = "create_product")
                 => loc[c].row \notin table'
            /\ (pc[c] = "refresh" /\ req[c].op = "update_product_by_name")
                 => loc[c].row \in table']_vars

(***************************************************************************)
(* C18: two concurrent updates of the two fields of one product            *)
(***************************************************************************)
\* c and d have both loaded the same row as it was before either's UPDATE
\* and have both committed; c supplied only description, d only price
C18_BothCommitted(c, d) ==
    /\ c # d
    /\ pc[c] = "refresh" /\ req[c].op = "update_product_by_name"
    /\ pc[d] = "refresh" /\ req[d].op = "update_product_by_name"
    /\ loc[c].row = loc[d].row
    /\ ~IsNone(req[c].description) /\ IsNone(req[c].price)
    /\ IsNone(req[d].description) /\ ~IsNone(req[d].price)

\* the stored row has the description c supplied and the price d supplied
C18_Kept(c, d) ==
    \E r \in table :
       /\ r.id = loc[c].row.id /\ r.name = loc[c].row.name
       /\ r.description = req[c].description
       /\ r.price = ToNumeric(Val(req[d].price))

\* C18: when an update of the description only and an update of the price
\* only have read the same row before either committed, then after every
\* step, once both have committed, in either order, the stored row has the
\* description of the one and the price of the other; each update is
\* answered 200 when it finds the row at its reload.
C18_BothChangesKept ==
    [][/\ \A c, d \in Clients : (C18_BothCommitted(c, d) => C18_Kept(c, d))'
       /\ \A c \in Clients :
            (update_product_by_name_refresh(c) /\ StoredId(table, loc[c].row.id))
              => /\ resp'.status = 200 /\ resp'.client = c
                 /\ resp'.fields = UpdatedFields(req[c])]_vars

\* both updates have committed and each has changed its field
C18_Witness ==
    \E c, d \in Clients :
        /\ C18_BothCommitted(c, d)
        /\ loc[c].row.description # req[c].description
        /\ loc[d].row.price # ToNumeric(Val(req[d].price))
        /\ \E r \in table : r.id = loc[c].row.id

(***************************************************************************)
(* C19: a deleted product's name is free again                             *)
(***************************************************************************)
\* C19: the DELETE of delete_product, when it removes the row the handler
\* loaded, is answered 200 and leaves no row under the name of that row.
\* While no row is stored under a name, get_product_by_name
\* and update_product_by_name on it answer 404, a create under it passes
\* the pre-check (no 409), its INSERT stores the row and the row is
\* retrievable by that name; the create is answered 201 when it finds the
\* row at db.refresh.
C19_NameFreed ==
    [][\A c \in Clients :
         /\ (delete_product_commit(c) /\ StoredId(table, loc[c].row.id)) =>
              /\ resp'.status = 200 /\ resp'.name = loc[c].row.name
              /\ ~Stored(table', loc[c].row.name)
              /\ GetProductByNameResult(table', loc[c].row.name).status = 404
              /\ IsNone(UpdateTarget(table', loc[c].row.name))
         /\ (get_product_by_name(c) /\ ~Stored(table, req[c].name))
              => resp'.status = 404 /\ resp'.client = c
         /\ (update_product_by_name_query(c) /\ ~Stored(table, req[c].name))
              => resp'.status = 404 /\ resp'.client = c
         /\ (create_product_check(c) /\ ~Stored(table, req[c].name))
              => pc'[c] = "commit"
         /\ (create_product_commit(c) /\ ~Stored(table, req[c].name)
               /\ Fits(Val(req[c].price)))
              => /\ pc'[c] = "refresh"
                 /\ GetProductByNameResult(table', req[c].name).status = 200
                 /\ \A j \in GetProductByNameResult(table', req[c].name).body :
                      j.name = req[c].name /\ j.id = loc'[c].row.id
         /\ (create_product_refresh(c) /\ StoredId(table, loc[c].row.id))
              => resp'.status = 201 /\ resp'.id = loc[c].row.id]_vars

\* a create was answered 201 under the name of a deleted product: the
\* session of another request still holds the deleted row, of the same name
\* and of a lower id, that is stored no more
C19_Witness ==
    /\ resp.op = "create_product" /\ resp.status = 201
    /\ \E r \in table, d \in Clients :
         /\ r.id = resp.id /\ r.name = resp.name
         /\ d # resp.client /\ InFlight(d)
         /\ loc[d].row.name = r.name
         /\ loc[d].row.id \in 1..(r.id - 1)
         /\ ~StoredId(table, loc[d].row.id)

====
